---- MODULE Spec2Model ----
(***************************************************************************)
(* Model of the receipt-ocr MCP server (src/servers/receipt_ocr_server.py):*)
(* the category store (categories.json), the five tool operations and the  *)
(* Google Sheets append.                                                   *)
(*                                                                         *)
(* Text handled by json.dump / json.load / json.loads is a sequence of     *)
(* tokens, the chunks json's encoder writes one by one (whitespace left    *)
(* out).  Parsed JSON values are tagged records:                           *)
(*   [k |-> "str", v |-> s]   [k |-> "num", v |-> n]   [k |-> "null"]      *)
(*   [k |-> "list", v |-> <<values>>]                                      *)
(*   [k |-> "obj", v |-> function from key strings to values]              *)
(***************************************************************************)
EXTENDS Integers, Sequences, FiniteSets, TLC

(***************************************************************************)
(* Bounds of the model.                                                    *)
(***************************************************************************)
MaxItems == 2
MaxSheetRows == 2
BufferTokens == 8

(***************************************************************************)
(* JSON values and tokens.                                                 *)
(***************************************************************************)
Str(s) == [k |-> "str", v |-> s]
Num(n) == [k |-> "num", v |-> n]
Null == [k |-> "null"]
List(seq) == [k |-> "list", v |-> seq]
Obj(f) == [k |-> "obj", v |-> f]
EmptyDict == [x \in {} |-> Null]

Tok(t) == [t |-> t]
StrTok(s) == [t |-> "str", s |-> s]
NumTok(n) == [t |-> "num", n |-> n]

\* The keys of a dict in the order json's encoder walks them.  The dicts this
\* model encodes have their keys inserted in alphabetical order of this list.
KeyOrder == <<"categories", "category", "cats", "date", "item", "line_items", "price", "vendor">>

RECURSIVE JoinTokens(_, _)
JoinTokens(parts, sep) ==
    IF parts = <<>> THEN <<>>
    ELSE IF Len(parts) = 1 THEN parts[1]
    ELSE parts[1] \o <<sep>> \o JoinTokens(Tail(parts), sep)

RECURSIVE JSONDumps(_)
\* json.dumps / json.dump: the chunks of the encoding of a value.
JSONDumps(val) ==
    CASE val.k = "str" -> <<StrTok(val.v)>>
      [] val.k = "num" -> <<NumTok(val.v)>>
      [] val.k = "null" -> <<Tok("null")>>
      [] val.k = "list" ->
            <<Tok("[")>>
            \o JoinTokens([i \in 1..Len(val.v) |-> JSONDumps(val.v[i])], Tok(","))
            \o <<Tok("]")>>
      [] val.k = "obj" ->
            LET keys == SelectSeq(KeyOrder, LAMBDA key : key \in DOMAIN val.v)
            IN  <<Tok("{")>>
                \o JoinTokens([i \in 1..Len(keys) |->
                                  <<StrTok(keys[i]), Tok(":")>> \o JSONDumps(val.v[keys[i]])],
                              Tok(","))
                \o <<Tok("}")>>

ParseFail == [ok |-> FALSE]
ParseOk(val, rest) == [ok |-> TRUE, val |-> val, rest |-> rest]

RECURSIVE ParseValue(_), ParseElements(_, _), ParseMembers(_, _)
\* json's scanner: one value off the front of the tokens.
ParseValue(toks) ==
    IF toks = <<>> THEN ParseFail
    ELSE LET h == Head(toks) IN
         CASE h.t = "str" -> ParseOk(Str(h.s), Tail(toks))
           [] h.t = "num" -> ParseOk(Num(h.n), Tail(toks))
           [] h.t = "null" -> ParseOk(Null, Tail(toks))
           [] h.t = "[" ->
                IF Len(toks) > 1 /\ toks[2].t = "]"
                THEN ParseOk(List(<<>>), SubSeq(toks, 3, Len(toks)))
                ELSE ParseElements(Tail(toks), <<>>)
           [] h.t = "{" ->
                IF Len(toks) > 1 /\ toks[2].t = "}"
                THEN ParseOk(Obj(EmptyDict), SubSeq(toks, 3, Len(toks)))
                ELSE ParseMembers(Tail(toks), EmptyDict)
           [] OTHER -> ParseFail

ParseElements(toks, acc) ==
    LET r == ParseValue(toks) IN
    IF ~r.ok \/ r.rest = <<>> THEN ParseFail
    ELSE IF Head(r.rest).t = "," THEN ParseElements(Tail(r.rest), Append(acc, r.val))
    ELSE IF Head(r.rest).t = "]" THEN ParseOk(List(Append(acc, r.val)), Tail(r.rest))
    ELSE ParseFail

ParseMembers(toks, acc) ==
    IF Len(toks) < 2 \/ toks[1].t # "str" \/ toks[2].t # ":" THEN ParseFail
    ELSE LET r == ParseValue(SubSeq(toks, 3, Len(toks))) IN
         IF ~r.ok \/ r.rest = <<>> THEN ParseFail
         ELSE LET dict == (toks[1].s :> r.val) @@ acc IN
              IF Head(r.rest).t = "," THEN ParseMembers(Tail(r.rest), dict)
              ELSE IF Head(r.rest).t = "}" THEN ParseOk(Obj(dict), Tail(r.rest))
              ELSE ParseFail

\* json.loads / json.load: the value, or JSONDecodeError.
DecodeError == [k |-> "JSONDecodeError"]
JSONLoads(toks) ==
    LET r == ParseValue(toks) IN
    IF r.ok /\ r.rest = <<>> THEN r.val ELSE DecodeError

(***************************************************************************)
(* Python outcomes: a function either returns a value or raises.           *)
(***************************************************************************)
Return(val) == [kind |-> "return", val |-> val]
Raise(exc) == [kind |-> "raise", exc |-> exc]

\* One thing of the environment can fail during a tool call, named by `fail`:
\* opening the store to read it ("read") or to write it ("write"), the write
\* reaching the file ("flush"), the Gemini call ("model"), the Sheets
\* authentication ("auth"), the append request before ("execute") or after
\* ("response") the rows are in the sheet; "none": nothing fails.

(***************************************************************************)
(* CATEGORY STORAGE (local JSON): CATEGORIES_FILE is absent, or holds a    *)
(* sequence of tokens.                                                     *)
(***************************************************************************)
Absent == [exists |-> FALSE, content |-> <<>>]
FileWith(toks) == [exists |-> TRUE, content |-> toks]

DefaultCategories ==
    <<"Snacks", "Vegetables", "Meat", "Clothes", "Makeup/Skincare",
      "Condiments", "Dairy", "Beverages", "Bakery">>

StrList(names) == List([i \in 1..Len(names) |-> Str(names[i])])
CategoriesDoc(categories) == Obj("categories" :> categories)

\* open(CATEGORIES_FILE, "w") followed by json.dump(doc, f): open can raise
\* (the file is untouched); open truncates, and the buffered text reaches the
\* file when the with-block closes it, which can raise too (the file is left
\* empty).
write_json(f, doc, fail) ==
    IF fail = "write" THEN [file |-> f, out |-> Raise("OSError")]
    ELSE IF fail = "flush" THEN [file |-> FileWith(<<>>), out |-> Raise("OSError")]
    ELSE [file |-> FileWith(JSONDumps(doc)), out |-> Return(Null)]

\* data.get("categories", []) on the loaded document.
get_categories(data) ==
    IF data.k = "JSONDecodeError" THEN Raise("JSONDecodeError")
    ELSE IF data.k # "obj" THEN Raise("AttributeError")
    ELSE IF "categories" \in DOMAIN data.v THEN Return(data.v["categories"])
    ELSE Return(List(<<>>))

\* Mutant of load_categories: the default is dumped as a bare list, not under
\* the "categories" key.
load_categories_bare(f, fail) ==
    IF ~f.exists
    THEN LET w == write_json(f, StrList(DefaultCategories), fail) IN
         IF w.out.kind = "raise" THEN w
         ELSE [file |-> w.file, out |-> Return(StrList(DefaultCategories))]
    ELSE IF fail = "read" THEN [file |-> f, out |-> Raise("OSError")]
    ELSE [file |-> f, out |-> get_categories(JSONLoads(f.content))]

load_categories(f, fail) ==
    IF ~f.exists
    THEN LET w == write_json(f, CategoriesDoc(StrList(DefaultCategories)), fail) IN
         IF w.out.kind = "raise" THEN w
         ELSE [file |-> w.file, out |-> Return(StrList(DefaultCategories))]
    ELSE IF fail = "read" THEN [file |-> f, out |-> Raise("OSError")]
    ELSE [file |-> f, out |-> get_categories(JSONLoads(f.content))]

save_categories(f, categories, fail) ==
    write_json(f, CategoriesDoc(categories), fail)

\* Python's `x in container` for a string x: a list is searched for an equal
\* element, a dict for the key; None and numbers raise TypeError.  (A str
\* container, a substring test, is not among the documents modelled.)
is_str(val, x) == val.k = "str" /\ val.v = x

in_raises(container) == container.k \in {"null", "num"}

py_in(x, container) ==
    CASE container.k = "list" -> \E i \in 1..Len(container.v) : is_str(container.v[i], x)
      [] container.k = "obj" -> x \in DOMAIN container.v

\* except Exception as e: return json.dumps({"error": str(e)})
catch_exception(out) ==
    IF out.kind = "raise" THEN Return([type |-> "json", error |-> out.exc]) ELSE out

\* The exception a handler's try block raised, "none" when it returned.
exc_of(out) == IF out.kind = "raise" THEN out.exc ELSE "none"

\* Mutant of add_category_body: no membership test, the name is appended.
add_category_nocheck(f, new_category, fail) ==
    LET l == load_categories(f, fail) IN
    IF l.out.kind = "raise" THEN l
    ELSE LET categories == l.out.val IN
         IF categories.k # "list" THEN [file |-> l.file, out |-> Raise("AttributeError")]
         ELSE LET updated == List(Append(categories.v, Str(new_category)))
                  s == save_categories(l.file, updated, fail)
              IN  IF s.out.kind = "raise" THEN s
                  ELSE [file |-> s.file,
                        out |-> Return([type |-> "json", status |-> "added",
                                        categories |-> updated])]

add_category_body(f, new_category, fail) ==
    LET l == load_categories(f, fail) IN
    IF l.out.kind = "raise" THEN l
    ELSE LET categories == l.out.val
             present == py_in(new_category, categories)
         IN  IF in_raises(categories) THEN [file |-> l.file, out |-> Raise("TypeError")]
             ELSE IF ~present
             THEN IF categories.k # "list"
                  THEN [file |-> l.file, out |-> Raise("AttributeError")]
                  ELSE LET updated == List(Append(categories.v, Str(new_category)))
                           s == save_categories(l.file, updated, fail)
                       IN  IF s.out.kind = "raise" THEN s
                           ELSE [file |-> s.file,
                                 out |-> Return([type |-> "json", status |-> "added",
                                                 categories |-> updated])]
             ELSE [file |-> l.file,
                   out |-> Return([type |-> "json", status |-> "exists",
                                   categories |-> categories])]

add_category(f, new_category, fail) ==
    LET r == add_category_body(f, new_category, fail)
    IN  [file |-> r.file, out |-> catch_exception(r.out), raised |-> exc_of(r.out)]

\* list.remove(x): the list without its first element equal to x.
list_remove(seq, x) ==
    LET i == CHOOSE j \in 1..Len(seq) : is_str(seq[j], x) /\ \A h \in 1..(j - 1) : ~is_str(seq[h], x)
    IN  SubSeq(seq, 1, i - 1) \o SubSeq(seq, i + 1, Len(seq))

remove_category_body(f, category, fail) ==
    LET l == load_categories(f, fail) IN
    IF l.out.kind = "raise" THEN l
    ELSE LET categories == l.out.val
             present == py_in(category, categories)
         IN  IF in_raises(categories) THEN [file |-> l.file, out |-> Raise("TypeError")]
             ELSE IF present
             THEN IF categories.k # "list"
                  THEN [file |-> l.file, out |-> Raise("AttributeError")]
                  ELSE LET updated == List(list_remove(categories.v, category))
                           s == save_categories(l.file, updated, fail)
                       IN  IF s.out.kind = "raise" THEN s
                           ELSE [file |-> s.file,
                                 out |-> Return([type |-> "json", status |-> "removed",
                                                 categories |-> updated])]
             ELSE [file |-> l.file,
                   out |-> Return([type |-> "json", status |-> "not_found",
                                   categories |-> categories])]

remove_category(f, category, fail) ==
    LET r == remove_category_body(f, category, fail)
    IN  [file |-> r.file, out |-> catch_exception(r.out), raised |-> exc_of(r.out)]

(***************************************************************************)
(* HELPERS: a Gemini response is a sequence of candidates, each with a     *)
(* content (a sequence of parts) or None; a part carries a text or not.    *)
(* The text joined with newlines is kept as the sequence of its lines.     *)
(***************************************************************************)
NoContent == [none |-> TRUE]
Content(parts) == [none |-> FALSE, parts |-> parts]
TextPart(text) == [text |-> text]
OtherPart == [text |-> ""]

RECURSIVE Flatten(_)
Flatten(seqs) == IF seqs = <<>> THEN <<>> ELSE Head(seqs) \o Flatten(Tail(seqs))

parse_response(response) ==
    IF response = <<>> THEN <<>>
    ELSE Flatten([i \in 1..Len(response) |->
            IF response[i].none THEN <<>>
            ELSE LET texts == SelectSeq(response[i].parts, LAMBDA part : part.text # "")
                 IN  [j \in 1..Len(texts) |-> texts[j].text]])

(***************************************************************************)
(* GOOGLE SHEETS TOOLING.  A row is <<date, vendor, item, price, category>>*)
(* of JSON values.                                                         *)
(***************************************************************************)
\* dict.get(key, default)
dict_get(d, key, default) == IF key \in DOMAIN d THEN d[key] ELSE default

\* data.get("line_items", [])
line_items_of(data) == dict_get(data, "line_items", List(<<>>)).v

\* The rows append_receipt builds for the record `data`, one for each of
\* `line_items` (append_receipt passes every line item of the record).
rows_of(data, line_items) ==
    LET vendor == dict_get(data, "vendor", Str(""))
        date == dict_get(data, "date", Str(""))
    IN  [i \in 1..Len(line_items) |->
            <<date, vendor,
              dict_get(line_items[i].v, "item", Str("")),
              dict_get(line_items[i].v, "price", Str("")),
              dict_get(line_items[i].v, "category", Str(""))>>]

\* spreadsheets().values().append(body={"values": values}).execute() and the
\* result append_receipt returns.
send_rows(values, sheet) ==
    [sheet |-> sheet \o values, service |-> TRUE, batches |-> <<values>>,
     out |-> Return([type |-> "json", status |-> "success", rows_added |-> Len(values)])]

\* SheetsTool.append_receipt emitting `line_items`: authenticates when there is
\* no service yet, builds the rows and appends the batch in one request.
\* `batches` are the request bodies handed to the Sheets service.  The request
\* can fail before the rows are in the sheet ("execute") or after ("response").
append_rows(data, line_items, sheet, service, fail) ==
    IF ~service /\ fail = "auth"
    THEN [sheet |-> sheet, service |-> service, batches |-> <<>>,
          out |-> Raise("AuthError")]
    ELSE LET sent == send_rows(rows_of(data, line_items), sheet) IN
         IF fail = "execute"
         THEN [sent EXCEPT !.sheet = sheet, !.out = Raise("HttpError")]
         ELSE IF fail = "response"
         THEN [sent EXCEPT !.out = Raise("TransportError")]
         ELSE sent

\* Mutant of append_receipt: a line item whose price is falsy (0) is skipped.
append_receipt_skip_free(data, sheet, service, fail) ==
    append_rows(data, SelectSeq(line_items_of(data), LAMBDA li : li.v["price"] # Num(0)),
                sheet, service, fail)

\* Mutant of append_receipt: a line item with a negative price is not emitted.
append_receipt_drop_negative(data, sheet, service, fail) ==
    append_rows(data, SelectSeq(line_items_of(data), LAMBDA li : li.v["price"].v >= 0),
                sheet, service, fail)

\* SheetsTool.append_receipt: every line item is a row.
append_receipt(data, sheet, service, fail) ==
    append_rows(data, line_items_of(data), sheet, service, fail)

(***************************************************************************)
(* TOOLS                                                                   *)
(***************************************************************************)
extract_receipt_text_body(image_exists, response, fail) ==
    IF ~image_exists THEN Raise("OSError")
    ELSE IF fail = "model" THEN Raise("ModelError")
    ELSE Return([type |-> "json", raw_text |-> parse_response(response)])

extract_receipt_text(image_exists, response, fail) ==
    LET out == extract_receipt_text_body(image_exists, response, fail)
    IN  [out |-> catch_exception(out), raised |-> exc_of(out)]

structure_receipt_text_body(f, response, fail) ==
    LET l == load_categories(f, fail) IN
    IF l.out.kind = "raise" THEN l
    ELSE IF fail = "model" THEN [file |-> l.file, out |-> Raise("ModelError")]
    ELSE [file |-> l.file,
          out |-> Return([type |-> "text", text |-> parse_response(response)])]

structure_receipt_text(f, response, fail) ==
    LET r == structure_receipt_text_body(f, response, fail)
    IN  [file |-> r.file, out |-> catch_exception(r.out), raised |-> exc_of(r.out)]

expected_keys == {"vendor", "date", "line_items"}
line_item_keys == {"item", "price", "category"}

\* The index of the first line item the validation loop stops at (one that is
\* no dict, or lacks a key), 0 when the loop runs through.
first_bad_line_item(line_items) ==
    LET bad == {i \in 1..Len(line_items) :
                   \/ line_items[i].k # "obj"
                   \/ ~(line_item_keys \subseteq DOMAIN line_items[i].v)}
    IN  IF bad = {} THEN 0 ELSE CHOOSE i \in bad : \A j \in bad : i <= j

\* Mutant of append_to_sheet_body: the loop over the line items is missing, the
\* record goes to append_receipt once line_items is a list.
append_to_sheet_no_item_check(structured_json, sheet, service, fail) ==
    LET data == JSONLoads(structured_json)
        unchanged(out) == [sheet |-> sheet, service |-> service, batches |-> <<>>,
                           out |-> out]
    IN  IF data.k = "JSONDecodeError" THEN unchanged(Raise("JSONDecodeError"))
        ELSE IF in_raises(data) THEN unchanged(Raise("TypeError"))
        ELSE IF ~(\A key \in expected_keys : py_in(key, data))
        THEN unchanged(Return([type |-> "json",
                               error |-> "Invalid JSON: missing required keys",
                               keys |-> expected_keys, raw |-> data]))
        ELSE IF data.k # "obj" THEN unchanged(Raise("TypeError"))
        ELSE IF data.v["line_items"].k # "list"
        THEN unchanged(Return([type |-> "json", error |-> "line_items must be a list",
                               raw |-> data]))
        ELSE IF \E i \in 1..Len(data.v["line_items"].v) : data.v["line_items"].v[i].k # "obj"
        THEN unchanged(Raise("AttributeError"))
        ELSE append_receipt(data.v, sheet, service, fail)

\* The try block of append_to_sheet.
append_to_sheet_body(structured_json, sheet, service, fail) ==
    LET data == JSONLoads(structured_json)
        unchanged(out) == [sheet |-> sheet, service |-> service, batches |-> <<>>,
                           out |-> out]
    IN  IF data.k = "JSONDecodeError" THEN unchanged(Raise("JSONDecodeError"))
        ELSE IF in_raises(data) THEN unchanged(Raise("TypeError"))
        ELSE IF ~(\A key \in expected_keys : py_in(key, data))
        THEN unchanged(Return([type |-> "json",
                               error |-> "Invalid JSON: missing required keys",
                               keys |-> expected_keys, raw |-> data]))
        ELSE IF data.k # "obj" THEN unchanged(Raise("TypeError"))
        ELSE IF data.v["line_items"].k # "list"
        THEN unchanged(Return([type |-> "json", error |-> "line_items must be a list",
                               raw |-> data]))
        ELSE LET bad == first_bad_line_item(data.v["line_items"].v) IN
             IF bad # 0 /\ data.v["line_items"].v[bad].k # "obj"
             THEN unchanged(Raise("AttributeError"))
             ELSE IF bad # 0
             THEN unchanged(Return([type |-> "json",
                                    error |-> "Invalid line_item format",
                                    line_item |-> data.v["line_items"].v[bad],
                                    raw |-> data]))
             ELSE append_receipt(data.v, sheet, service, fail)

\* Mutant of catch_append: only `except json.JSONDecodeError`.
catch_append_decode_only(out, structured_json) ==
    IF out.kind = "raise" /\ out.exc = "JSONDecodeError"
    THEN Return([type |-> "json", error |-> "Invalid JSON received from LLM",
                 raw |-> structured_json])
    ELSE out

\* The except clauses of append_to_sheet.
catch_append(out, structured_json) ==
    IF out.kind # "raise" THEN out
    ELSE Return([type |-> "json",
                 error |-> IF out.exc = "JSONDecodeError"
                           THEN "Invalid JSON received from LLM"
                           ELSE out.exc,
                 raw |-> structured_json])

append_to_sheet(structured_json, sheet, service, fail) ==
    LET r == append_to_sheet_body(structured_json, sheet, service, fail)
    IN  [sheet |-> r.sheet, service |-> r.service, batches |-> r.batches,
         out |-> catch_append(r.out, structured_json), raised |-> exc_of(r.out)]

(***************************************************************************)
(* Inputs.                                                                 *)
(***************************************************************************)
Names == {"Dairy", " Dairy", "Tea"}

Prices == {-5, 0, 10}
ItemNames == <<"A", "B", "C", "D">>
ItemCategories == <<"Dairy", "Bakery", "Snacks", "Meat">>

LineItem(i, price) ==
    Obj([key \in line_item_keys |->
            CASE key = "item" -> Str(ItemNames[i])
              [] key = "price" -> Num(price)
              [] key = "category" -> Str(ItemCategories[i])])

LineItems(prices) == List([i \in 1..Len(prices) |-> LineItem(i, prices[i])])

Receipt(line_items) ==
    Obj([key \in expected_keys |->
            CASE key = "vendor" -> Str("V")
              [] key = "date" -> Str("01/02/2025")
              [] key = "line_items" -> line_items])

\* A dict without some of its keys.
Without(obj, keys) == Obj([key \in (DOMAIN obj.v) \ keys |-> obj.v[key]])

PriceLists == UNION {[1..n -> Prices] : n \in 0..MaxItems}

ValidReceipts == {Receipt(LineItems(prices)) : prices \in PriceLists}

InvalidReceipts ==
    {Without(Receipt(line_items), keys) :
        line_items \in {LineItems(<<10>>), Str("none")},
        keys \in (SUBSET expected_keys) \ {{}}}
    \cup {Receipt(Str("none")), Receipt(Null),
          Receipt(List(<<LineItem(1, 10), Without(LineItem(2, -5), {"category"})>>)),
          Receipt(List(<<Without(LineItem(1, 10), {"price", "item"}), Str("milk")>>)),
          Receipt(List(<<Str("milk"), Without(LineItem(2, 10), {"item"})>>)),
          List(<<>>), StrList(<<"vendor", "date", "line_items">>), Num(5), Null}

\* Text that is not JSON: free text of the classifier, nothing, a cut document.
MalformedJsons ==
    {<<Tok("text")>>, <<>>, SubSeq(JSONDumps(Receipt(LineItems(<<10>>))), 1, 6)}

\* What the agent hands to append_to_sheet.
StructuredJsons ==
    {JSONDumps(val) : val \in ValidReceipts \cup InvalidReceipts} \cup MalformedJsons

\* One input for each way through append_to_sheet.
SampleJsons ==
    {JSONDumps(val) :
        val \in {Receipt(LineItems(<<10, -5>>)), Receipt(LineItems(<<-5>>)),
                 Receipt(LineItems(<<>>)),
                 Without(Receipt(LineItems(<<10>>)), {"line_items"}),
                 Receipt(Str("none")),
                 Receipt(List(<<LineItem(1, 10), Without(LineItem(2, -5), {"category"})>>)),
                 Receipt(List(<<Str("milk")>>)),
                 StrList(<<"vendor", "date", "line_items">>), Num(5)}}
    \cup {<<Tok("text")>>}

Responses ==
    {<<>>,
     <<NoContent>>,
     <<Content(<<TextPart("MILK 3.50"), OtherPart>>), NoContent,
       Content(<<TextPart("DISCOUNT -1.00")>>)>>}

\* Contents another program or a person leaves in the category store.
ExternalDocs ==
    {<<>>,
     JSONDumps(Obj(EmptyDict)),
     JSONDumps(CategoriesDoc(Null)),
     JSONDumps(StrList(<<"Dairy">>)),
     SubSeq(JSONDumps(CategoriesDoc(StrList(DefaultCategories))), 1, 7)}

(***************************************************************************)
(* State.                                                                  *)
(***************************************************************************)
VARIABLES
    file,       \* CATEGORIES_FILE
    sheet,      \* the rows of the spreadsheet
    service,    \* sheets_tool.service is set
    call,       \* the last step taken: [op, arg], and for structure_receipt_text
                \* whether the store was missing (fresh)
    ret,        \* what the last tool call gave its caller
    raised,     \* the exception raised inside the last tool call, or "none"
    batches,    \* the request bodies the last tool call handed to the Sheets service
    writer,     \* a save_categories in progress: [pc, old, new]
    observed    \* what a concurrent load_categories read and got

vars == <<file, sheet, service, call, ret, raised, batches, writer, observed>>

NoCall == [op |-> "none"]
NoOutcome == [kind |-> "none"]
IdleWriter == [pc |-> "idle", old |-> <<>>, new |-> <<>>]

Init ==
    /\ file = Absent
    /\ sheet = <<>>
    /\ service = FALSE
    /\ call = NoCall
    /\ ret = NoOutcome
    /\ raised = "none"
    /\ batches = <<>>
    /\ writer = IdleWriter
    /\ observed = NoOutcome

ExtractReceiptText(image_exists, response, fail) ==
    LET r == extract_receipt_text(image_exists, response, fail) IN
    /\ call' = [op |-> "extract_receipt_text", arg |-> image_exists]
    /\ ret' = r.out
    /\ raised' = r.raised
    /\ batches' = <<>>
    /\ UNCHANGED <<file, sheet, service, writer, observed>>

StructureReceiptText(response, fail) ==
    LET r == structure_receipt_text(file, response, fail) IN
    /\ call' = [op |-> "structure_receipt_text", arg |-> response, fresh |-> ~file.exists]
    /\ file' = r.file
    /\ ret' = r.out
    /\ raised' = r.raised
    /\ batches' = <<>>
    /\ UNCHANGED <<sheet, service, writer, observed>>

AppendToSheet(structured_json, fail) ==
    LET r == append_to_sheet(structured_json, sheet, service, fail) IN
    /\ call' = [op |-> "append_to_sheet", arg |-> structured_json]
    /\ sheet' = r.sheet
    /\ service' = r.service
    /\ ret' = r.out
    /\ raised' = r.raised
    /\ batches' = r.batches
    /\ UNCHANGED <<file, writer, observed>>

AddCategory(new_category, fail) ==
    LET r == add_category(file, new_category, fail) IN
    /\ call' = [op |-> "add_category", arg |-> new_category]
    /\ file' = r.file
    /\ ret' = r.out
    /\ raised' = r.raised
    /\ batches' = <<>>
    /\ UNCHANGED <<sheet, service, writer, observed>>

RemoveCategory(category, fail) ==
    LET r == remove_category(file, category, fail) IN
    /\ call' = [op |-> "remove_category", arg |-> category]
    /\ file' = r.file
    /\ ret' = r.out
    /\ raised' = r.raised
    /\ batches' = <<>>
    /\ UNCHANGED <<sheet, service, writer, observed>>

ExternalEdit(doc) ==
    /\ file.exists
    /\ call' = [op |-> "external_edit", arg |-> doc]
    /\ file' = FileWith(doc)
    /\ ret' = NoOutcome
    /\ raised' = "none"
    /\ batches' = <<>>
    /\ UNCHANGED <<sheet, service, writer, observed>>

Next ==
    \/ \E image_exists \in BOOLEAN, response \in Responses, fail \in {"none", "model"} :
          ExtractReceiptText(image_exists, response, fail)
    \/ \E response \in Responses, fail \in {"none", "read", "write", "flush", "model"} :
          StructureReceiptText(response, fail)
    \/ \E structured_json \in SampleJsons, fail \in {"none", "auth", "execute", "response"} :
          AppendToSheet(structured_json, fail) /\ Len(sheet') <= MaxSheetRows
    \/ \E new_category \in Names, fail \in {"none", "read", "write", "flush"} :
          AddCategory(new_category, fail)
    \/ \E category \in Names, fail \in {"none", "read", "write", "flush"} :
          RemoveCategory(category, fail)
    \/ \E doc \in ExternalDocs : ExternalEdit(doc)

Spec == Init /\ [][Next]_vars

(***************************************************************************)
(* One run of append_to_sheet on each input up to MaxItems line items,     *)
(* from the states the Sheets side can be in.                              *)
(***************************************************************************)
OldRow == <<Str("31/01/2025"), Str("W"), Str("Z"), Num(1), Str("Meat")>>

InitAppend ==
    /\ file = Absent
    /\ \E start \in {<<<<>>, FALSE>>, <<<<>>, TRUE>>, <<<<OldRow>>, TRUE>>} :
          sheet = start[1] /\ service = start[2]
    /\ call = NoCall
    /\ ret = NoOutcome
    /\ raised = "none"
    /\ batches = <<>>
    /\ writer = IdleWriter
    /\ observed = NoOutcome

NextAppend ==
    \E structured_json \in StructuredJsons, fail \in {"none", "auth", "execute", "response"} :
        call = NoCall /\ AppendToSheet(structured_json, fail)

SpecAppend == InitAppend /\ [][NextAppend]_vars

(***************************************************************************)
(* The category registry on its own: the store is touched by the tools     *)
(* only.                                                                   *)
(***************************************************************************)
NextRegistry ==
    \/ \E response \in Responses, fail \in {"none", "read", "write", "flush", "model"} :
          StructureReceiptText(response, fail)
    \/ \E new_category \in Names, fail \in {"none", "read", "write", "flush"} :
          AddCategory(new_category, fail)
    \/ \E category \in Names, fail \in {"none", "read", "write", "flush"} :
          RemoveCategory(category, fail)

SpecRegistry == Init /\ [][NextRegistry]_vars

(***************************************************************************)
(* save_categories step by step, beside a load_categories of another       *)
(* process.  open(CATEGORIES_FILE, "w") truncates the file; json.dump      *)
(* writes the chunks into the file object's buffer, which reaches the file *)
(* each time BufferTokens chunks are pending and when the with-block       *)
(* closes the file.  The writer is add_category or remove_category, whose  *)
(* handler runs to its save without interruption (it awaits nothing).      *)
(***************************************************************************)
InitSave ==
    /\ file = FileWith(JSONDumps(CategoriesDoc(StrList(DefaultCategories))))
    /\ sheet = <<>>
    /\ service = FALSE
    /\ call = NoCall
    /\ ret = NoOutcome
    /\ raised = "none"
    /\ batches = <<>>
    /\ writer = IdleWriter
    /\ observed = NoOutcome

\* The handler up to its call of save_categories.
SaveBegin(op, name) ==
    LET r == IF op = "add_category" THEN add_category(file, name, "none")
             ELSE remove_category(file, name, "none")
    IN  /\ writer.pc = "idle"
        /\ r.file # file
        /\ writer' = [pc |-> "open", old |-> file.content, new |-> r.file.content]
        /\ call' = [op |-> op, arg |-> name]
        /\ ret' = r.out
        /\ observed' = NoOutcome
        /\ UNCHANGED <<file, sheet, service, raised, batches>>

\* open(CATEGORIES_FILE, "w")
SaveOpen ==
    /\ writer.pc = "open"
    /\ file' = FileWith(<<>>)
    /\ writer' = [writer EXCEPT !.pc = "write"]
    /\ UNCHANGED <<sheet, service, call, ret, raised, batches, observed>>

\* The buffer is full: its chunks go to the file.
SaveFlush ==
    /\ writer.pc = "write"
    /\ Len(writer.new) - Len(file.content) > BufferTokens
    /\ file' = FileWith(SubSeq(writer.new, 1, Len(file.content) + BufferTokens))
    /\ UNCHANGED <<sheet, service, call, ret, raised, batches, writer, observed>>

\* The with-block ends: the rest of the buffer goes to the file.
SaveClose ==
    /\ writer.pc = "write"
    /\ Len(writer.new) - Len(file.content) <= BufferTokens
    /\ file' = FileWith(writer.new)
    /\ writer' = [writer EXCEPT !.pc = "idle"]
    /\ UNCHANGED <<sheet, service, call, ret, raised, batches, observed>>

\* load_categories() of another process.
ReaderLoad ==
    LET l == load_categories(file, "none") IN
    /\ observed' = [kind |-> "load", saving |-> writer.pc # "idle",
                    content |-> file.content, out |-> l.out]
    /\ file' = l.file
    /\ UNCHANGED <<sheet, service, call, ret, raised, batches, writer>>

NextSave ==
    \/ \E op \in {"add_category", "remove_category"}, name \in Names : SaveBegin(op, name)
    \/ SaveOpen
    \/ SaveFlush
    \/ SaveClose
    \/ ReaderLoad

SpecSave == InitSave /\ [][NextSave]_vars

(***************************************************************************)
(* Properties.                                                             *)
(***************************************************************************)
AppendCalled == call.op = "append_to_sheet"

\* The record handed to the last append_to_sheet, when it is a valid one.
ValidInput == AppendCalled /\ \E rec \in ValidReceipts : JSONDumps(rec) = call.arg
InputRecord == CHOOSE rec \in ValidReceipts : JSONDumps(rec) = call.arg
InputItems == InputRecord.v["line_items"].v
PriceOf(li) == li.v["price"].v
RowOf(rec, li) ==
    <<rec.v["date"], rec.v["vendor"], li.v["item"], li.v["price"], li.v["category"]>>

RECURSIVE MergeRows(_, _, _)
\* The rows of the merge rule: a negative price after an emitted row is taken
\* off that row's price, every other line item is a row of its own.
MergeRows(rec, items, rows) ==
    IF items = <<>> THEN rows
    ELSE LET li == Head(items) IN
         IF PriceOf(li) < 0 /\ rows # <<>>
         THEN LET last == rows[Len(rows)]
                  merged == [last EXCEPT ![4] = Num(last[4].v + PriceOf(li))]
              IN  MergeRows(rec, Tail(items), [rows EXCEPT ![Len(rows)] = merged])
         ELSE MergeRows(rec, Tail(items), Append(rows, RowOf(rec, li)))

\* C1: for a validated record the batch appended is the one the merge rule
\* gives: a line item with a negative price that follows an emitted row adds
\* no row, its amount is taken off the price of the row before it.
C1_MergeRule ==
    (ValidInput /\ batches # <<>>) =>
        batches[1] = MergeRows(InputRecord, InputItems, <<>>)

\* C2: for a valid record whose prices are all >= 0, the one batch handed to
\* the Sheets service holds exactly one row <<date, vendor, item, price,
\* category>> per line item, in order and unchanged, and when the service
\* accepts it the result is "success" with rows_added = len(line_items).
C2_RowPerLineItem ==
    (ValidInput /\ \A i \in 1..Len(InputItems) : PriceOf(InputItems[i]) >= 0) =>
        /\ raised # "AuthError" =>
              batches = <<[i \in 1..Len(InputItems) |-> RowOf(InputRecord, InputItems[i])]>>
        /\ raised = "none" =>
              /\ ret = Return([type |-> "json", status |-> "success",
                               rows_added |-> Len(InputItems)])
              /\ Len(sheet) >= Len(InputItems)
              /\ SubSeq(sheet, Len(sheet) - Len(InputItems) + 1, Len(sheet)) = batches[1]

C2_Witness ==
    /\ ValidInput
    /\ Len(InputItems) = 2
    /\ PriceOf(InputItems[1]) = 0
    /\ PriceOf(InputItems[2]) = 10
    /\ raised = "none"
    /\ ret.val.rows_added = 2
    /\ Len(sheet) = 3

\* C3: a first line item with a negative price is a row of its own with its
\* price unchanged; a record with that line item alone gives one row and
\* rows_added = 1.
C3_LeadingNegative ==
    (ValidInput /\ InputItems # <<>> /\ PriceOf(InputItems[1]) < 0
     /\ raised # "AuthError") =>
        /\ Len(batches) = 1
        /\ batches[1] # <<>>
        /\ batches[1][1] = RowOf(InputRecord, InputItems[1])
        /\ Len(InputItems) = 1 => Len(batches[1]) = 1
        /\ (Len(InputItems) = 1 /\ raised = "none") =>
              ret = Return([type |-> "json", status |-> "success", rows_added |-> 1])

C3_Witness ==
    /\ ValidInput
    /\ Len(InputItems) = 1
    /\ PriceOf(InputItems[1]) = -5
    /\ raised = "none"
    /\ batches = <<<<RowOf(InputRecord, InputItems[1])>>>>
    /\ ret.val.rows_added = 1

\* The keys of expected_keys a JSON object handed to append_to_sheet lacks.
InputData == JSONLoads(call.arg)
MissingKeys == expected_keys \ DOMAIN InputData.v

\* C7: a JSON object that lacks some of vendor, date, line_items is rejected
\* with the missing-fields error, whatever its line_items are, and the error
\* names exactly the keys that are missing.
C7_MissingFieldsExact ==
    (AppendCalled /\ InputData.k = "obj" /\ MissingKeys # {}) =>
        /\ ret.kind = "return"
        /\ ret.val.error = "Invalid JSON: missing required keys"
        /\ batches = <<>>
        /\ ret.val.keys = MissingKeys

(***************************************************************************)
(* Properties of the category registry.                                    *)
(***************************************************************************)
\* The store holds a document {"categories": [...]}.
HoldsList(f) ==
    /\ f.exists
    /\ LET doc == JSONLoads(f.content) IN
          /\ doc.k = "obj"
          /\ "categories" \in DOMAIN doc.v
          /\ doc.v["categories"].k = "list"
StoredList(f) == JSONLoads(f.content).v["categories"].v
IOFails == {"none", "read", "write", "flush"}

\* C4: add_category of a name that is in the stored list answers "exists" and
\* leaves the store as it is, whatever fails meanwhile; and after an
\* add_category that went through, the same add_category again changes
\* nothing.
C4_AddIdempotent ==
    /\ \A name \in Names :
          (HoldsList(file) /\ \E i \in 1..Len(StoredList(file)) : StoredList(file)[i] = Str(name)) =>
              /\ \A fail \in IOFails : add_category(file, name, fail).file = file
              /\ add_category(file, name, "none").out =
                    Return([type |-> "json", status |-> "exists",
                            categories |-> List(StoredList(file))])
    /\ (call.op = "add_category" /\ raised = "none") =>
          \A fail \in IOFails : add_category(file, call.arg, fail).file = file

C4_Witness ==
    /\ call.op = "add_category"
    /\ call.arg = " Dairy"
    /\ ret.kind = "return"
    /\ raised = "none"
    /\ ret.val.status = "exists"
    /\ HoldsList(file)
    /\ Len(StoredList(file)) = Len(DefaultCategories) + 1

\* Whitespace-trimmed key of a category name of this model.
Trim(name) == IF name = " Dairy" THEN "Dairy" ELSE name

\* C5: the stored list never holds two entries with the same trimmed key.
C5_NoNormalizedDuplicates ==
    HoldsList(file) =>
        \A i, j \in 1..Len(StoredList(file)) :
            (i # j /\ StoredList(file)[i].k = "str" /\ StoredList(file)[j].k = "str") =>
                Trim(StoredList(file)[i].v) # Trim(StoredList(file)[j].v)

\* C6: load_categories() on a store that does not exist returns the nine
\* default categories in order and leaves a store from which the next
\* load_categories() returns the same, without touching it.
C6_DefaultBootstrap ==
    /\ ~file.exists =>
          LET first == load_categories(file, "none")
              second == load_categories(first.file, "none")
          IN  /\ first.out = Return(StrList(DefaultCategories))
              /\ Len(first.out.val.v) = 9
              /\ first.file.exists
              /\ second.out = first.out
              /\ second.file = first.file
    /\ (call.op = "structure_receipt_text" /\ call.fresh
        /\ raised \in {"none", "ModelError"}) =>
          /\ file.exists
          /\ load_categories(file, "none") =
                [file |-> file, out |-> Return(StrList(DefaultCategories))]

C6_Witness ==
    /\ call.op = "structure_receipt_text"
    /\ call.fresh
    /\ raised = "none"
    /\ file.exists
    /\ load_categories(file, "none").out = Return(StrList(DefaultCategories))

Tools ==
    {"extract_receipt_text", "structure_receipt_text", "append_to_sheet",
     "add_category", "remove_category"}

\* C8: a tool call always returns, and when something raised inside it, what
\* it returns is JSON with an "error" field.
C8_NeverRaises ==
    call.op \in Tools =>
        /\ ret.kind = "return"
        /\ raised # "none" => (ret.val.type = "json" /\ "error" \in DOMAIN ret.val)

C8_Witness ==
    /\ call.op = "append_to_sheet"
    /\ raised = "HttpError"
    /\ ret.kind = "return"
    /\ ret.val.error = "HttpError"

\* C9: a load_categories that runs while a save is in progress reads the whole
\* previous content or the whole new content.
C9_AtomicSave ==
    (observed.kind = "load" /\ observed.saving) =>
        observed.content \in {writer.old, writer.new}

\* C10: a tool call that finds a store that exists and holds no well-formed
\* "categories" list fails to load it, so add_category and remove_category
\* report an error and leave the store as it is.
C10_CorruptStoreKept ==
    [][(file.exists /\ ~HoldsList(file)
        /\ call'.op \in {"add_category", "remove_category"}) =>
            /\ raised' # "none"
            /\ "error" \in DOMAIN ret'.val
            /\ file' = file]_vars

(***************************************************************************)
(* Validation before persistence.                                          *)
(***************************************************************************)
\* The text passes every check of append_to_sheet: it parses to an object with
\* vendor, date and line_items, line_items is a list, and every line item is
\* an object with item, price and category.
PassesValidation(structured_json) ==
    LET data == JSONLoads(structured_json) IN
    /\ data.k = "obj"
    /\ expected_keys \subseteq DOMAIN data.v
    /\ data.v["line_items"].k = "list"
    /\ \A i \in 1..Len(data.v["line_items"].v) :
          /\ data.v["line_items"].v[i].k = "obj"
          /\ line_item_keys \subseteq DOMAIN data.v["line_items"].v[i].v

ValidationErrors ==
    {"Invalid JSON received from LLM", "Invalid JSON: missing required keys",
     "line_items must be a list", "Invalid line_item format"}

\* C11: a run of append_to_sheet hands at most one batch to the Sheets service,
\* and only for a text that passes every validation check; a run that returns
\* a validation error hands over nothing and leaves the sheet as it was.
C11_ValidateBeforePersist ==
    [][call'.op = "append_to_sheet" =>
          /\ Len(batches') <= 1
          /\ batches' # <<>> => PassesValidation(call'.arg)
          /\ ~PassesValidation(call'.arg) => (sheet' = sheet /\ batches' = <<>>)
          /\ ("error" \in DOMAIN ret'.val /\ ret'.val.error \in ValidationErrors) =>
                (sheet' = sheet /\ batches' = <<>> /\ ~PassesValidation(call'.arg))]_vars

C11_Witness ==
    /\ call.op = "append_to_sheet"
    /\ ret.kind = "return"
    /\ "error" \in DOMAIN ret.val
    /\ ret.val.error = "Invalid line_item format"
    /\ ret.val.line_item = Without(LineItem(2, -5), {"category"})
    /\ sheet = <<OldRow>>
    /\ batches = <<>>

====
